---- MODULE Spec2Model ----
(***************************************************************************)
(* Model of backtest.py: calculate_dca and the __main__ block.             *)
(*                                                                         *)
(* now is the clock that line 52 reads into end_date.                      *)
(* Dates are day ordinals counted from 1970-01-01 (the pandas Timestamp    *)
(* epoch).  Share quantities are fixed-point numbers with Scale units per  *)
(* share (the code uses binary floats); rounded summary fields are in      *)
(* hundredths (cents, hundredths of a percent) or ten-thousandths.         *)
(* Closing prices are positive and finite, as the provider delivers them.  *)
(***************************************************************************)
EXTENDS Integers, Sequences, FiniteSets, TLC

VARIABLES pc, ticker, amount, frequency, start_date, now, calls, data, ideal_dates,
          df_dca, total_invested, total_shares, todays_data, current_price,
          outcome, printed

vars == <<pc, ticker, amount, frequency, start_date, now, calls, data, ideal_dates,
          df_dca, total_invested, total_shares, todays_data, current_price,
          outcome, printed>>

----
(* Bounds of the model *)

\* ordinal of the earliest start date tried: 2023-12-28, a Thursday
FirstStart == 19719
\* start_date ranges over FirstStart .. FirstStart + StartSpan
StartSpan == 5
\* the longest distance in days between start_date and now
MaxSpan == 370
\* now is chosen so that the ideal calendar has about MaxDates dates at most
MaxDates == 16
\* the amount invested per interval ranges over -1 .. MaxAmount
MaxAmount == 1
\* closing prices range over 1 .. MaxPrice
MaxPrice == 5
\* the last row of the downloaded history is at most MaxLag days before now
MaxLag == 1
\* fixed-point units per share
Scale == 100

----
(* Calendar arithmetic of pandas Timestamps *)

\* Monday = 0 .. Sunday = 6; 1970-01-01 was a Thursday
Weekday(d) == (d + 3) % 7

\* the civil date <<year, month, day>> of an ordinal
CivilFromDays(d) ==
    LET z == d + 719468
        era == z \div 146097
        doe == z - era * 146097
        yoe == (doe - doe \div 1460 + doe \div 36524 - doe \div 146096) \div 365
        doy == doe - (365 * yoe + yoe \div 4 - yoe \div 100)
        mp == (5 * doy + 2) \div 153
        dd == doy - (153 * mp + 2) \div 5 + 1
        mm == IF mp < 10 THEN mp + 3 ELSE mp - 9
        yy == yoe + era * 400 + (IF mm <= 2 THEN 1 ELSE 0)
    IN <<yy, mm, dd>>

\* the ordinal of a civil date
DaysFromCivil(y, m, d) ==
    LET yy == IF m <= 2 THEN y - 1 ELSE y
        era == yy \div 400
        yoe == yy - era * 400
        mp == IF m > 2 THEN m - 3 ELSE m + 9
        doy == (153 * mp + 2) \div 5 + d - 1
        doe == yoe * 365 + yoe \div 4 - yoe \div 100 + doy
    IN era * 146097 + doe - 719468

Year(d) == CivilFromDays(d)[1]
Month(d) == CivilFromDays(d)[2]
Day(d) == CivilFromDays(d)[3]

\* the first day of the month that lies k months after the month of d
MonthStartAfter(d, k) ==
    LET idx == Year(d) * 12 + (Month(d) - 1) + k
    IN DaysFromCivil(idx \div 12, (idx % 12) + 1, 1)

----
(* Step 1: the frequency map *)

Frequencies == {"daily", "weekly", "bi-weekly", "monthly", "quarterly", "yearly"}

freq_map ==
    [f \in Frequencies |->
        CASE f = "daily" -> "B"
          [] f = "weekly" -> "W"
          [] f = "bi-weekly" -> "2W"
          [] f = "monthly" -> "MS"
          [] f = "quarterly" -> "QS"
          [] f = "yearly" -> "YS"]

----
(* Step 3: pandas.date_range(start, end, freq) for the aliases of freq_map *)

\* whether date d lies on the offset's anchor
IsOnOffset(alias, d) ==
    CASE alias = "B" -> Weekday(d) < 5
      [] alias \in {"W", "2W"} -> Weekday(d) = 6
      [] alias = "MS" -> Day(d) = 1
      [] alias = "QS" -> Day(d) = 1 /\ Month(d) % 3 = 1
      [] alias = "YS" -> Day(d) = 1 /\ Month(d) = 1

\* months per step of the month-based offsets
OffsetMonths(alias) ==
    CASE alias = "MS" -> 1
      [] alias = "QS" -> 3
      [] alias = "YS" -> 12

\* RollForward that leaves the start date where it is
RollForwardNone(alias, d) == d

\* RollForward that goes back to the anchored date at or before d
RollBackward(alias, d) ==
    IF IsOnOffset(alias, d) THEN d
    ELSE CASE alias = "B" -> d - (Weekday(d) - 4)
           [] alias \in {"W", "2W"} -> d - (Weekday(d) + 1)
           [] alias = "MS" -> MonthStartAfter(d, 0)
           [] alias = "QS" -> MonthStartAfter(d, 0 - ((Month(d) - 1) % 3))
           [] alias = "YS" -> MonthStartAfter(d, 1 - Month(d))

\* the first anchored date at or after d
RollForward(alias, d) ==
    IF IsOnOffset(alias, d) THEN d
    ELSE CASE alias = "B" -> d + (7 - Weekday(d))
           [] alias \in {"W", "2W"} -> d + (6 - Weekday(d))
           [] alias = "MS" -> MonthStartAfter(d, 1)
           [] alias = "QS" -> MonthStartAfter(d, 3 - ((Month(d) - 1) % 3))
           [] alias = "YS" -> MonthStartAfter(d, 13 - Month(d))

\* the anchored date that follows the anchored date d
ApplyOffset(alias, d) ==
    CASE alias = "B" -> IF Weekday(d) = 4 THEN d + 3 ELSE d + 1
      [] alias = "W" -> d + 7
      [] alias = "2W" -> d + 14
      [] alias \in {"MS", "QS", "YS"} -> MonthStartAfter(d, OffsetMonths(alias))

RECURSIVE GenerateRange(_, _, _)
GenerateRange(alias, cur, end) ==
    IF cur > end THEN <<>>
    ELSE <<cur>> \o GenerateRange(alias, ApplyOffset(alias, cur), end)

date_range(start, end, alias) == GenerateRange(alias, RollForward(alias, start), end)

----
(* Values shared by the steps *)

\* an absent value (None, NaN) is the empty tuple, a present value v is <<v>>
NoValue == <<>>
Some(v) == <<v>>

Min(S) == CHOOSE x \in S : \A y \in S : x <= y
Max(S) == 0 - Min({0 - x : x \in S})

\* a / b rounded to the nearest integer, for b > 0
RoundDiv(a, b) == (2 * a + b) \div (2 * b)

\* round(x, 2) and round(x, 4) of a quantity held in Scale units: hundredths
\* and ten-thousandths
Round2(x) == RoundDiv(100 * x, Scale)
Round4(x) == RoundDiv(10000 * x, Scale)

----
(* The data provider: what yf.download(ticker, start=start_date) may return *)

\* the weekdays on which the market is closed: never (a crypto ticker),
\* at weekends, at weekends and midweek
ClosedOptions == {{}, {5, 6}, {2, 5, 6}}

\* the ways the closes vary from day to day
PricePatterns == {1, 2}

\* the close of day t under a pattern
ClosePrice(t, pattern) == 1 + ((t * pattern) % MaxPrice)

\* a history with one row per open day in first .. last
History(closed, first, last, pattern) ==
    [t \in {u \in first .. last : Weekday(u) \notin closed} |-> ClosePrice(t, pattern)]

\* the histories from start to the present; the last days may be missing yet
Histories(start, end) ==
    {History(closed, start, end - lag, pattern) :
        closed \in ClosedOptions, lag \in 0 .. MaxLag, pattern \in PricePatterns}

\* what yf.Ticker(ticker).history(period='5d') may return: no row, or rows
\* whose last close is the given price
LatestPrices == {MaxPrice + 1}

----
(* Step 4: data['Close'].reindex(ideal_dates, method='bfill').dropna() *)

\* Bfill taking the first row dated strictly after d
BfillStrictlyLater(series, d) ==
    LET later == {t \in DOMAIN series : t > d}
    IN IF later = {} THEN NoValue ELSE Some(series[Min(later)])

\* Bfill that falls back to the last row when no row is dated at or after d
BfillOrLast(series, d) ==
    LET later == {t \in DOMAIN series : t >= d}
    IN IF later = {} THEN Some(series[Max(DOMAIN series)]) ELSE Some(series[Min(later)])

\* the close of the first row dated at or after d, NaN when there is none
Bfill(series, d) ==
    LET later == {t \in DOMAIN series : t >= d}
    IN IF later = {} THEN NoValue ELSE Some(series[Min(later)])

Reindex(series, dates) ==
    [i \in DOMAIN dates |-> [Date |-> dates[i], Close |-> Bfill(series, dates[i])]]

IsNotNa(row) == row.Close # NoValue

DropNa(rows) == SelectSeq(rows, IsNotNa)

\* pd.DataFrame(buy_log) with the column renamed to Price
ToFrame(rows) == [i \in DOMAIN rows |-> [Date |-> rows[i].Date, Price |-> rows[i].Close[1]]]

----
(* Step 5: per-purchase and cumulative columns *)

\* Invested / Price, in Scale units
SharesPurchased(invested, price) == (invested * Scale) \div price

\* CumSum that leaves the current row out of its running total
RECURSIVE CumSumExclusive(_)
CumSumExclusive(s) ==
    IF s = <<>> THEN <<>>
    ELSE LET prev == CumSumExclusive(SubSeq(s, 1, Len(s) - 1))
         IN Append(prev, IF prev = <<>> THEN 0 ELSE prev[Len(prev)] + s[Len(s) - 1])

RECURSIVE CumSum(_)
CumSum(s) ==
    IF s = <<>> THEN <<>>
    ELSE LET prev == CumSum(SubSeq(s, 1, Len(s) - 1))
         IN Append(prev, (IF prev = <<>> THEN 0 ELSE prev[Len(prev)]) + s[Len(s)])

RECURSIVE Sum(_)
Sum(s) == IF s = <<>> THEN 0 ELSE Sum(SubSeq(s, 1, Len(s) - 1)) + s[Len(s)]

AddColumns(frame, amt) ==
    LET invested == [i \in DOMAIN frame |-> amt]
        shares == [i \in DOMAIN frame |-> SharesPurchased(invested[i], frame[i].Price)]
        cumShares == CumSum(shares)
        cumInvested == CumSum(invested)
    IN [i \in DOMAIN frame |->
           [Date |-> frame[i].Date,
            Price |-> frame[i].Price,
            Invested |-> invested[i],
            Shares_Purchased |-> shares[i],
            Total_Shares |-> cumShares[i],
            Total_Invested |-> cumInvested[i]]]

Column(frame, name) == [i \in DOMAIN frame |-> frame[i][name]]

----
(* Steps 5b and 6: the final metrics and the summary *)

\* total_shares * current_price, in Scale units of currency
PortfolioValue(shares, price) == shares * price

\* portfolio_value - total_invested, in Scale units of currency
ProfitLoss(value, invested) == value - invested * Scale

\* Roi that reports a total loss when nothing was invested
RoiTotalLoss(profit, invested) ==
    IF invested > 0 THEN RoundDiv(10000 * profit, invested * Scale) ELSE 0 - 10000

\* (profit_loss / total_invested) * 100 rounded to 2 places, in hundredths of
\* a percent; 0 unless total_invested > 0
Roi(profit, invested) ==
    IF invested > 0 THEN RoundDiv(10000 * profit, invested * Scale) ELSE 0

\* round(total_invested / total_shares, 2) in cents; 0 unless total_shares > 0
AverageCostBasis(invested, shares) ==
    IF shares > 0 THEN RoundDiv(100 * invested * Scale, shares) ELSE 0

Summary(tick, freq, start, invested, shares, price) ==
    LET value == PortfolioValue(shares, price)
        profit == ProfitLoss(value, invested)
    IN [Ticker |-> tick,
        Start_Date |-> start,
        Frequency |-> freq,
        Total_Invested |-> 100 * invested,
        Total_Shares_Owned |-> Round4(shares),
        Average_Cost_Basis |-> AverageCostBasis(invested, shares),
        Current_Share_Price |-> 100 * price,
        Portfolio_Value |-> Round2(value),
        Profit_Loss |-> Round2(profit),
        ROI |-> <<Roi(profit, invested), "%">>]

----
(* The program *)

\* rows shown by log.head()
HeadRows == 5

\* the ticker of the main block
ticker_symbol == "FTEC"

Amounts == (0 - 1) .. MaxAmount

StartDates == FirstStart .. FirstStart + StartSpan

\* distances in days between start_date and now
Spans == {0, 3, 4, 9, 16, 35, 100, MaxSpan}

\* the shortest step in days of a frequency's calendar
StepDays(f) ==
    CASE f \in {"weekly"} -> 7
      [] f = "bi-weekly" -> 14
      [] f = "monthly" -> 28
      [] f = "quarterly" -> 89
      [] f = "yearly" -> 365
      [] OTHER -> 1

SpansOf(f) == {s \in Spans : s \div StepDays(f) <= MaxDates}

FrequencyInputs == Frequencies \cup {"fortnightly"}

Range(s) == {s[i] : i \in DOMAIN s}

IsEmpty(series) == DOMAIN series = {}

\* data['Close'].iloc[-1]
LastClose(series) == series[Max(DOMAIN series)]

\* CurrentPrice that always takes the last close of the downloaded history
CurrentPriceFromHistory(latest, series) == LastClose(series)

\* lines 84-88: the latest close when there is one, else the last close of
\* the downloaded history
CurrentPrice(latest, series) ==
    IF latest # NoValue THEN latest[1] ELSE LastClose(series)

Init ==
    /\ pc = "check"
    /\ ticker = ticker_symbol
    /\ amount \in Amounts
    /\ frequency \in FrequencyInputs
    /\ start_date \in StartDates
    /\ now \in {start_date + s : s \in SpansOf(frequency)}
    /\ calls = <<>>
    /\ data = <<>>
    /\ ideal_dates = <<>>
    /\ df_dca = <<>>
    /\ total_invested = 0
    /\ total_shares = 0
    /\ todays_data = NoValue
    /\ current_price = NoValue
    /\ outcome = [kind |-> "running"]
    /\ printed = <<>>

\* CheckFrequency placed after the history download
CheckFrequencyAfterDownload ==
    /\ pc = "check"
    /\ IF frequency \notin DOMAIN freq_map
       THEN /\ pc' = "raised"
            /\ calls' = Append(calls, "download")
            /\ outcome' = [kind |-> "raised", error |-> "ValueError"]
       ELSE /\ pc' = "download"
            /\ UNCHANGED <<calls, outcome>>
    /\ UNCHANGED <<ticker, amount, frequency, start_date, now, data, ideal_dates,
                   df_dca, total_invested, total_shares, todays_data,
                   current_price, printed>>

\* lines 30-31: an unknown frequency raises ValueError
CheckFrequency ==
    /\ pc = "check"
    /\ IF frequency \notin DOMAIN freq_map
       THEN /\ pc' = "raised"
            /\ outcome' = [kind |-> "raised", error |-> "ValueError"]
       ELSE /\ pc' = "download"
            /\ UNCHANGED outcome
    /\ UNCHANGED <<ticker, amount, frequency, start_date, now, calls, data, ideal_dates,
                   df_dca, total_invested, total_shares, todays_data,
                   current_price, printed>>

\* Download without the check for an empty history
DownloadNoEmptyCheck ==
    /\ pc = "download"
    /\ printed' = Append(printed, [what |-> "fetching"])
    /\ calls' = Append(calls, "download")
    /\ \/ /\ outcome' = [kind |-> "returned",
                         stats |-> [Error |-> "Failed to download data"],
                         log |-> NoValue]
          /\ pc' = "returned"
          /\ UNCHANGED data
       \/ \E h \in Histories(start_date, now) :
             /\ data' = h
             /\ pc' = "dates"
             /\ UNCHANGED outcome
    /\ UNCHANGED <<ticker, amount, frequency, start_date, now, ideal_dates, df_dca,
                   total_invested, total_shares, todays_data, current_price>>

\* lines 35-48: the history download; it may raise, return no row, or
\* return a history (whose columns line 48 flattens when they are two-level)
Download ==
    /\ pc = "download"
    /\ printed' = Append(printed, [what |-> "fetching"])
    /\ calls' = Append(calls, "download")
    /\ \/ /\ outcome' = [kind |-> "returned",
                         stats |-> [Error |-> "Failed to download data"],
                         log |-> NoValue]
          /\ pc' = "returned"
          /\ UNCHANGED data
       \/ \E h \in Histories(start_date, now) :
             /\ data' = h
             /\ IF IsEmpty(h)
                THEN /\ outcome' = [kind |-> "returned",
                                    stats |-> [Error |-> "No data found"],
                                    log |-> NoValue]
                     /\ pc' = "returned"
                ELSE /\ pc' = "dates"
                     /\ UNCHANGED outcome
    /\ UNCHANGED <<ticker, amount, frequency, start_date, now, ideal_dates, df_dca,
                   total_invested, total_shares, todays_data, current_price>>

\* lines 52-53: the ideal buy dates from start_date to now
GenerateDates ==
    /\ pc = "dates"
    /\ ideal_dates' = date_range(start_date, now, freq_map[frequency])
    /\ pc' = "align"
    /\ UNCHANGED <<ticker, amount, frequency, start_date, now, calls, data, df_dca,
                   total_invested, total_shares, todays_data, current_price,
                   outcome, printed>>

\* lines 59-66: align the ideal dates with the trading days
Align ==
    /\ pc = "align"
    /\ df_dca' = ToFrame(DropNa(Reindex(data, ideal_dates)))
    /\ pc' = "calc"
    /\ UNCHANGED <<ticker, amount, frequency, start_date, now, calls, data, ideal_dates,
                   total_invested, total_shares, todays_data, current_price,
                   outcome, printed>>

\* lines 69-78: the purchase columns and the totals
Calculate ==
    /\ pc = "calc"
    /\ df_dca' = AddColumns(df_dca, amount)
    /\ total_invested' = Sum(Column(df_dca', "Invested"))
    /\ total_shares' = Sum(Column(df_dca', "Shares_Purchased"))
    /\ pc' = "latest"
    /\ UNCHANGED <<ticker, amount, frequency, start_date, now, calls, data, ideal_dates,
                   todays_data, current_price, outcome, printed>>

\* lines 82-88: the latest price, with the downloaded history as fallback
FetchLatest ==
    /\ pc = "latest"
    /\ calls' = Append(calls, "history")
    /\ \E latest \in {NoValue} \cup {Some(p) : p \in LatestPrices} :
          /\ todays_data' = latest
          /\ current_price' = Some(CurrentPrice(latest, data))
    /\ pc' = "summary"
    /\ UNCHANGED <<ticker, amount, frequency, start_date, now, data, ideal_dates, df_dca,
                   total_invested, total_shares, outcome, printed>>

\* Summarize that fails when no purchase was aligned
SummarizeOrFail ==
    /\ pc = "summary"
    /\ IF df_dca = <<>>
       THEN outcome' = [kind |-> "returned",
                        stats |-> [Error |-> "NoPurchasesAligned"],
                        log |-> NoValue]
       ELSE outcome' = [kind |-> "returned",
                        stats |-> Summary(ticker, frequency, start_date,
                                          total_invested, total_shares,
                                     current_price[1]),
                        log |-> Some(df_dca)]
    /\ pc' = "returned"
    /\ UNCHANGED <<ticker, amount, frequency, start_date, now, calls, data, ideal_dates,
                   df_dca, total_invested, total_shares, todays_data,
                   current_price, printed>>

\* lines 90-108: the summary and the return
Summarize ==
    /\ pc = "summary"
    /\ outcome' = [kind |-> "returned",
                   stats |-> Summary(ticker, frequency, start_date,
                                     total_invested, total_shares,
                                     current_price[1]),
                   log |-> Some(df_dca)]
    /\ pc' = "returned"
    /\ UNCHANGED <<ticker, amount, frequency, start_date, now, calls, data, ideal_dates,
                   df_dca, total_invested, total_shares, todays_data,
                   current_price, printed>>

\* lines 119-131: the caller prints the error, or the results and the first
\* transactions
MainPrint ==
    /\ pc = "returned"
    /\ IF "Error" \in DOMAIN outcome.stats
       THEN printed' = Append(printed, [what |-> "error", stats |-> outcome.stats])
       ELSE printed' = printed \o
                <<[what |-> "results", stats |-> outcome.stats],
                  [what |-> "transactions",
                   rows |-> SubSeq(outcome.log[1], 1,
                                   IF Len(outcome.log[1]) < HeadRows
                                   THEN Len(outcome.log[1]) ELSE HeadRows)]>>
    /\ pc' = "exit"
    /\ UNCHANGED <<ticker, amount, frequency, start_date, now, calls, data, ideal_dates,
                   df_dca, total_invested, total_shares, todays_data,
                   current_price, outcome>>

Next ==
    \/ CheckFrequency
    \/ Download
    \/ GenerateDates
    \/ Align
    \/ Calculate
    \/ FetchLatest
    \/ Summarize
    \/ MainPrint

Spec == Init /\ [][Next]_vars

----
(* Properties *)

\* the ideal calendar has been generated
DatesGenerated ==
    \/ pc \in {"align", "calc", "latest", "summary"}
    \/ pc \in {"returned", "exit"} /\ ~IsEmpty(data)

\* the ideal calendar has been aligned with the history
Aligned ==
    \/ pc \in {"calc", "latest", "summary"}
    \/ pc \in {"returned", "exit"} /\ ~IsEmpty(data)

\* the purchase columns have been computed
Calculated ==
    \/ pc \in {"latest", "summary"}
    \/ pc \in {"returned", "exit"} /\ ~IsEmpty(data)

\* calculate_dca has returned a summary
ReturnedSummary ==
    /\ pc \in {"returned", "exit"}
    /\ "Error" \notin DOMAIN outcome.stats

\* months since year 0 of the month of d
MonthIndex(d) == Year(d) * 12 + Month(d) - 1

\* C1: every purchase record belongs to an ideal date d, and its Price is the
\* close of the smallest date t of the price series with t >= d: the close of d
\* itself when d is a trading day, else that of the nearest later trading day,
\* never that of an earlier day or of a later day beyond an intermediate one.
C1_BackwardFill ==
    Aligned =>
        \A i \in DOMAIN df_dca :
            /\ df_dca[i].Date \in Range(ideal_dates)
            /\ \E t \in DOMAIN data :
                  /\ t >= df_dca[i].Date
                  /\ df_dca[i].Price = data[t]
                  /\ \A u \in df_dca[i].Date .. t - 1 : u \notin DOMAIN data

\* a record bought on its own trading day next to a record filled from a later
\* trading day, with an earlier trading day in the series
C1_Witness ==
    /\ Aligned
    /\ \E i, j \in DOMAIN df_dca :
          /\ df_dca[i].Date \in DOMAIN data
          /\ df_dca[j].Date \notin DOMAIN data
          /\ \E t \in DOMAIN data : t < df_dca[j].Date

\* C2: with a frequency outside the six recognised values the calculation
\* raises the invalid-frequency error before any provider call, and produces
\* neither a summary nor a purchase record.
C2_InvalidFrequency ==
    (frequency \notin Frequencies /\ pc # "check") =>
        /\ pc = "raised"
        /\ outcome = [kind |-> "raised", error |-> "ValueError"]
        /\ calls = <<>>
        /\ printed = <<>>
        /\ df_dca = <<>>
        /\ current_price = NoValue

C2_Witness == pc = "raised" /\ frequency = "fortnightly"

\* C3 as stated: a non-empty history with no aligned purchase ends in the
\* NoPurchasesAligned failure, without a summary.
C3_NoPurchasesAligned ==
    (pc \in {"returned", "exit"} /\ ~IsEmpty(data) /\ df_dca = <<>>) =>
        /\ "Error" \in DOMAIN outcome.stats
        /\ outcome.stats.Error = "NoPurchasesAligned"
        /\ outcome.log = NoValue

\* C3 as amended: a non-empty history with no aligned purchase is no failure:
\* the calculation returns a summary with nothing invested, no share, a zero
\* portfolio value and profit, and an empty purchase log.
C3_EmptySummary ==
    (pc \in {"returned", "exit"} /\ ~IsEmpty(data) /\ df_dca = <<>>) =>
        /\ outcome.kind = "returned"
        /\ "Error" \notin DOMAIN outcome.stats
        /\ outcome.stats.Total_Invested = 0
        /\ outcome.stats.Total_Shares_Owned = 0
        /\ outcome.stats.Portfolio_Value = 0
        /\ outcome.stats.Profit_Loss = 0
        /\ outcome.log = Some(<<>>)

\* every ideal date lies after the last date of a non-empty history
C3_Witness ==
    /\ pc = "returned"
    /\ ~IsEmpty(data)
    /\ ideal_dates # <<>>
    /\ \A i \in DOMAIN ideal_dates : ideal_dates[i] > Max(DOMAIN data)
    /\ df_dca = <<>>

\* C4: when the history download fails or returns no row, the calculation
\* ends with an error outcome that carries only the error, no summary field
\* and no purchase log; nothing is aligned and the latest price is never
\* fetched; the caller prints the error and no transaction.
C4_DataUnavailable ==
    ("download" \in Range(calls) /\ IsEmpty(data)) =>
        /\ pc \in {"returned", "exit"}
        /\ outcome.kind = "returned"
        /\ DOMAIN outcome.stats = {"Error"}
        /\ outcome.log = NoValue
        /\ "history" \notin Range(calls)
        /\ ideal_dates = <<>>
        /\ df_dca = <<>>
        /\ current_price = NoValue
        /\ \A i \in DOMAIN printed : printed[i].what \in {"fetching", "error"}

\* the download returned no row and the caller has printed the error
C4_Witness ==
    /\ pc = "exit"
    /\ calls = <<"download">>
    /\ "Error" \in DOMAIN outcome.stats
    /\ outcome.stats.Error = "No data found"
    /\ printed[Len(printed)].what = "error"

\* C5: with no purchase record the summary reports an Average Cost Basis of 0
\* and an ROI of 0.
C5_ZeroPurchases ==
    (ReturnedSummary /\ outcome.log = Some(<<>>)) =>
        /\ outcome.stats.Average_Cost_Basis = 0
        /\ outcome.stats.ROI = <<0, "%">>

\* a summary over no purchase record, for a non-zero amount and a calendar
\* without any ideal date
C5_Witness ==
    /\ ReturnedSummary
    /\ outcome.log = Some(<<>>)
    /\ ideal_dates = <<>>
    /\ amount # 0

\* the running totals of the purchase log obey the recurrence
Recurrence ==
    \A i \in DOMAIN df_dca :
        /\ df_dca[i].Total_Shares =
              (IF i = 1 THEN 0 ELSE df_dca[i - 1].Total_Shares) + df_dca[i].Shares_Purchased
        /\ df_dca[i].Total_Invested =
              (IF i = 1 THEN 0 ELSE df_dca[i - 1].Total_Invested) + df_dca[i].Invested

\* the running totals of the purchase log never decrease
NonDecreasing ==
    \A i \in DOMAIN df_dca :
        i > 1 => /\ df_dca[i].Total_Shares >= df_dca[i - 1].Total_Shares
                 /\ df_dca[i].Total_Invested >= df_dca[i - 1].Total_Invested

\* C6 as stated: for every amount the calculation accepts, the running totals
\* obey the recurrence and never decrease.
C6_AccumulationAnyAmount == Calculated => (Recurrence /\ NonDecreasing)

\* C6 as amended: the running totals obey the recurrence for every amount, and
\* they never decrease when the amount is not negative.
C6_Accumulation ==
    Calculated => (Recurrence /\ (amount >= 0 => NonDecreasing))

\* a log of several purchases at different prices for a positive amount
C6_Witness ==
    /\ Calculated
    /\ amount > 0
    /\ Len(df_dca) >= 3
    /\ df_dca[1].Price # df_dca[2].Price

\* C7: the purchase records are those of the ideal dates that are not later
\* than the last date of the price series, one record each, so the records
\* match a prefix of the ideal calendar and are no more than the ideal dates.
C7_NoFutureData ==
    Aligned =>
        LET last == Max(DOMAIN data)
            kept == {i \in DOMAIN ideal_dates : ideal_dates[i] <= last}
        IN /\ Len(df_dca) = Cardinality(kept)
           /\ Len(df_dca) <= Len(ideal_dates)
           /\ \A i \in DOMAIN df_dca : i \in kept /\ df_dca[i].Date = ideal_dates[i]
           /\ \A i \in DOMAIN ideal_dates : ideal_dates[i] > last => i > Len(df_dca)

\* some ideal dates got a record and some later ones, after the history, none
C7_Witness ==
    /\ Aligned
    /\ Len(df_dca) >= 1
    /\ Len(df_dca) < Len(ideal_dates)

\* the dates first, first + step, first + 2 step, ... up to end
Every(step, first, end) ==
    IF first > end THEN <<>>
    ELSE [k \in 1 .. ((end - first) \div step + 1) |-> first + step * (k - 1)]

\* C8 as stated: the weekly (bi-weekly) calendar is start_date + 7k (14k) days,
\* k = 0, 1, ..., up to now, whatever the weekday of start_date.
C8_WeeklyFromStart ==
    (DatesGenerated /\ frequency \in {"weekly", "bi-weekly"}) =>
        ideal_dates = Every(IF frequency = "weekly" THEN 7 ELSE 14, start_date, now)

\* C8 as amended: the weekly (bi-weekly) calendar is s + 7k (14k) days,
\* k = 0, 1, ..., up to now, where s is the first Sunday at or after
\* start_date; the first ideal date is start_date only when that is a Sunday.
C8_WeeklyFromSunday ==
    (DatesGenerated /\ frequency \in {"weekly", "bi-weekly"}) =>
        LET sunday == CHOOSE t \in start_date .. start_date + 6 : Weekday(t) = 6
        IN ideal_dates = Every(IF frequency = "weekly" THEN 7 ELSE 14, sunday, now)

\* a weekly calendar of several dates for a start date that is no Sunday
C8_Witness ==
    /\ DatesGenerated
    /\ frequency = "weekly"
    /\ Weekday(start_date) # 6
    /\ Len(ideal_dates) >= 2

\* months per period of the month-based frequencies
PeriodMonths == [f \in {"monthly", "quarterly", "yearly"} |->
                    IF f = "monthly" THEN 1 ELSE IF f = "quarterly" THEN 3 ELSE 12]

\* d is the first day of a month, quarter or year
IsPeriodStart(f, d) == Day(d) = 1 /\ (Month(d) - 1) % PeriodMonths[f] = 0

\* C9: for monthly, quarterly and yearly every ideal date is the first day of
\* a month, quarter, year within start_date .. now, consecutive ideal dates
\* are 1, 3, 12 calendar months apart, and the first ideal date is start_date
\* when that is a period start and else the start of the following period.
C9_PeriodStarts ==
    (DatesGenerated /\ frequency \in DOMAIN PeriodMonths) =>
        LET first == Min({t \in {MonthStartAfter(start_date, k) : k \in 0 .. 12} :
                             t >= start_date /\ IsPeriodStart(frequency, t)})
        IN /\ \A i \in DOMAIN ideal_dates :
                 /\ IsPeriodStart(frequency, ideal_dates[i])
                 /\ start_date <= ideal_dates[i]
                 /\ ideal_dates[i] <= now
                 /\ i > 1 => MonthIndex(ideal_dates[i]) =
                                MonthIndex(ideal_dates[i - 1]) + PeriodMonths[frequency]
           /\ first <= now => (ideal_dates # <<>> /\ ideal_dates[1] = first)
           /\ first > now => ideal_dates = <<>>

\* a quarterly or yearly calendar of several dates for a start date within a period
C9_Witness ==
    /\ DatesGenerated
    /\ frequency \in {"quarterly", "yearly"}
    /\ ~IsPeriodStart(frequency, start_date)
    /\ Len(ideal_dates) >= 2

\* the price the summary must use
SelectedPrice == IF todays_data # NoValue THEN todays_data[1] ELSE data[Max(DOMAIN data)]

\* the latest-price fetch comes second, and the price it yields is used, else
\* the last close of the history; a non-empty history always ends in a summary
C10_Selection ==
    /\ ("history" \in Range(calls)) =>
          /\ calls = <<"download", "history">>
          /\ current_price = Some(SelectedPrice)
    /\ (pc \in {"returned", "exit"} /\ ~IsEmpty(data)) =>
          /\ "history" \in Range(calls)
          /\ outcome.kind = "returned"
          /\ "Error" \notin DOMAIN outcome.stats
          /\ outcome.stats.Current_Share_Price = 100 * SelectedPrice
          /\ outcome.stats.Portfolio_Value = Round2(total_shares * SelectedPrice)
          /\ outcome.log = Some(df_dca)

\* the latest-price fetch happens after the download, once the purchase
\* records and their totals are computed, and changes none of them
C10_Order ==
    ("history" \notin Range(calls) /\ "history" \in Range(calls')) =>
        /\ calls = <<"download">>
        /\ ~IsEmpty(data)
        /\ df_dca' = df_dca
        /\ total_shares = Sum(Column(df_dca, "Shares_Purchased"))
        /\ total_invested = Sum(Column(df_dca, "Invested"))
        /\ UNCHANGED <<total_shares, total_invested, data>>

\* C10: the latest price is fetched after the history download and after the
\* purchase records are computed; the price it yields is the one used for the
\* Portfolio Value; when it yields none the last close of the downloaded
\* history is used, so a non-empty history always ends in a summary.
C10_CurrentPrice == []C10_Selection /\ [][C10_Order]_vars

\* a summary valued at a latest price that differs from the last close
C10_Witness ==
    /\ ReturnedSummary
    /\ todays_data # NoValue
    /\ todays_data[1] # data[Max(DOMAIN data)]
    /\ total_shares > 0

====
